---- MODULE Spec2Model ----
(***************************************************************************)
(* State-machine model of skills/atm-tram-schedule/scripts/                *)
(* check-tram-schedule.py: the GTFS dataset manager (download_gtfs), the   *)
(* query pipeline (find_route_id, find_trips, find_stops_by_name,          *)
(* get_stop_times, format_output) and the two TTL caches kept in the       *)
(* ambrogioctl state store (check_cache, main).                            *)
(*                                                                         *)
(* Python strings are sequences of one-character strings, so that          *)
(* concatenation, lower(), slicing, substring tests and the lexicographic  *)
(* order used by sorted() are computed, not assumed.                       *)
(* Optional values: None is <<>> and a present value x is <<x>>.           *)
(***************************************************************************)
EXTENDS Integers, Sequences, FiniteSets, TLC

\* ------------------------------------------------------------------ strings

\* The characters the model uses, in code-point (ASCII) order.
AsciiOrder ==
    << " ", "-", "0", "1", "2", "3", "4", "5", "6", "7", "8", "9", ":",
       "A", "B", "D", "E", "F", "L", "S", "T", "V",
       "a", "b", "c", "d", "e", "i", "k", "l", "n", "o", "r", "s", "t",
       "u", "w", "y", "z" >>

Ord(c) == CHOOSE i \in 1..Len(AsciiOrder) : AsciiOrder[i] = c

\* str.__lt__: the first differing character decides; a proper prefix is smaller.
RECURSIVE LexLess(_, _)
LexLess(a, b) ==
    IF b = <<>> THEN FALSE
    ELSE IF a = <<>> THEN TRUE
    ELSE IF Head(a) # Head(b) THEN Ord(Head(a)) < Ord(Head(b))
    ELSE LexLess(Tail(a), Tail(b))

LexLeq(a, b) == a = b \/ LexLess(a, b)

LowerChar(c) ==
    CASE c = "A" -> "a" [] c = "B" -> "b" [] c = "D" -> "d" [] c = "E" -> "e"
      [] c = "F" -> "f" [] c = "L" -> "l" [] c = "S" -> "s" [] c = "T" -> "t"
      [] c = "V" -> "v" [] OTHER -> c

\* str.lower()
Lower(s) == [i \in 1..Len(s) |-> LowerChar(s[i])]

\* sub in s
Contains(sub, s) ==
    \E i \in 0..(Len(s) - Len(sub)) : SubSeq(s, i + 1, i + Len(sub)) = sub

\* sep.join(parts)
RECURSIVE Join(_, _)
Join(sep, parts) ==
    IF parts = <<>> THEN <<>>
    ELSE IF Len(parts) = 1 THEN parts[1]
    ELSE parts[1] \o sep \o Join(sep, Tail(parts))

Range(f) == {f[i] : i \in DOMAIN f}

None == <<>>
Some(x) == <<x>>

\* ------------------------------------------------------------- configuration

GTFS_CACHE_TTL == 86400
SCHEDULE_CACHE_TTL == 3600
TripLimit == 50
SlugMaxLen == 30
TimesPerRow == 6

weekday == <<"w", "e", "e", "k", "d", "a", "y">>
saturday == <<"s", "a", "t", "u", "r", "d", "a", "y">>
sunday == <<"s", "u", "n", "d", "a", "y">>
tuesday == <<"t", "u", "e", "s", "d", "a", "y">>

SERVICE_PATTERNS ==
    [t \in {weekday, saturday, sunday} |->
        CASE t = weekday -> <<" ", "L", "V", " ">>
          [] t = saturday -> <<" ", "S", "A", "B", " ">>
          [] t = sunday -> <<" ", "F", "E", "S", "T", " ">>]

\* ------------------------------------------------------------ query pipeline

\* find_route_id over the rows of routes.txt (route ids are unique, so the
\* dict load_routes builds keeps the rows' order).
find_route_id(line, routes) ==
    LET tram_id == <<"T">> \o line
        direct == {i \in 1..Len(routes) :
                     routes[i].short_name = line /\ routes[i].type = <<"0">>}
    IN IF \E i \in 1..Len(routes) : routes[i].route_id = tram_id
       THEN Some(tram_id)
       ELSE IF direct = {} THEN None
       ELSE Some(routes[CHOOSE i \in direct : \A j \in direct : i <= j].route_id)

\* find_trips: scan trips.txt in order, stop once `limit` distinct trips are
\* collected.  Returns the dict {trip_id: headsign} as a function.
RECURSIVE ScanTrips(_, _, _, _, _)
ScanTrips(rows, route_id, service_pattern, limit, acc) ==
    IF rows = <<>> THEN acc
    ELSE LET row == Head(rows)
         IN IF row.route_id = route_id /\ Contains(service_pattern, row.service_id)
            THEN LET acc2 == [t \in (DOMAIN acc) \cup {row.trip_id} |->
                                IF t = row.trip_id THEN row.trip_headsign ELSE acc[t]]
                 IN IF Cardinality(DOMAIN acc2) >= limit
                    THEN acc2
                    ELSE ScanTrips(Tail(rows), route_id, service_pattern, limit, acc2)
            ELSE ScanTrips(Tail(rows), route_id, service_pattern, limit, acc)

find_trips(route_id, service_pattern, limit, trips_txt) ==
    ScanTrips(trips_txt, route_id, service_pattern, limit, <<>>)

\* find_stops_by_name: the list of stop ids, in table order, whose name
\* contains the filter, case-insensitively.
find_stops_by_name(name, stops) ==
    LET hit(row) == Contains(Lower(name), Lower(row.name))
        rows == SelectSeq(stops, hit)
    IN [i \in 1..Len(rows) |-> rows[i].stop_id]

\* The rows of stop_times.txt that get_stop_times keeps (lines 248-257):
\* the trip is selected, and stop_ids is None or holds the row's stop.
KeepRow(row, trip_info, stop_ids) ==
    /\ row.trip_id \in DOMAIN trip_info
    /\ (stop_ids = None \/ row.stop_id \in Range(stop_ids[1]))

\* times_by_stop[stop_id]: the (departure_time, headsign) pairs in row order.
TimesList(stop_id, trip_info, stop_ids, rows) ==
    LET mine(row) == KeepRow(row, trip_info, stop_ids) /\ row.stop_id = stop_id
        kept == SelectSeq(rows, mine)
    IN [i \in 1..Len(kept) |-> <<kept[i].departure_time, trip_info[kept[i].trip_id]>>]

\* The outcomes of sorted(xs, key=lambda x: x[0]) over every order in which
\* the elements of xs may be presented: the orders of xs's elements in which
\* the keys never decrease (elements with equal keys come out in any order).
RECURSIVE OrdersOf(_, _)
OrdersOf(xs, I) ==
    IF I = {} THEN {<<>>}
    ELSE UNION {{<<xs[i]>> \o r : r \in OrdersOf(xs, I \ {i})} :
                  i \in {j \in I : \A k \in I : LexLeq(xs[j][1], xs[k][1])}}

KeySortedOrders(xs) == OrdersOf(xs, 1..Len(xs))

\* Some enumeration of a finite set.
RECURSIVE SeqOfSet(_)
SeqOfSet(S) ==
    IF S = {} THEN <<>>
    ELSE LET x == CHOOSE y \in S : TRUE IN <<x>> \o SeqOfSet(S \ {x})

\* mutant: the duplicates are kept (sorted(times_list) without set()).
sorted_times_keep_duplicates(times_list) == KeySortedOrders(times_list)

\* sorted(set(times_list), key=lambda x: x[0]) (line 263).  A set's iteration
\* order is unspecified and the sort is by time only, so pairs with equal
\* times and different headsigns may come out in either order.
sorted_times(times_list) == KeySortedOrders(SeqOfSet(Range(times_list)))

\* get_stop_times: the set of dicts {stop_id: [(time, headsign), ...]} it may
\* return.
get_stop_times(trip_info, stop_ids, rows) ==
    LET seen == {rows[i].stop_id : i \in {j \in 1..Len(rows) :
                                            KeepRow(rows[j], trip_info, stop_ids)}}
    IN {r \in [seen -> UNION {sorted_times(TimesList(s, trip_info, stop_ids, rows)) :
                                s \in seen}] :
          \A s \in seen : r[s] \in sorted_times(TimesList(s, trip_info, stop_ids, rows))}

\* ---------------------------------------------------------------- formatting

\* str(n) for a natural number.
RECURSIVE Str(_)
Str(n) ==
    LET d == <<"0", "1", "2", "3", "4", "5", "6", "7", "8", "9">>
    IN IF n < 10 THEN <<d[n + 1]>> ELSE Str(n \div 10) \o <<d[(n % 10) + 1]>>

\* sorted(keys) for a set of strings.
RECURSIVE SortedStrings(_)
SortedStrings(S) ==
    IF S = {} THEN <<>>
    ELSE LET m == CHOOSE x \in S : \A y \in S : LexLeq(x, y)
         IN <<m>> \o SortedStrings(S \ {m})

\* One line of the report: a fixed prefix, the interpolated text, a fixed suffix.
Ln(pre, text, post) == [pre |-> pre, text |-> text, post |-> post]

\* stops.get(stop_id, {}).get('name', default)
StopName(stop_id, stops, default) ==
    LET hit == {i \in 1..Len(stops) : stops[i].stop_id = stop_id}
    IN IF hit = {} THEN default
       ELSE stops[CHOOSE i \in hit : \A j \in hit : j <= i].name

\* by_direction[direction] (lines 316-318): the times of one headsign, in the
\* order of the stop's list.
ByDirection(times_with_direction, direction) ==
    LET mine(p) == p[2] = direction
        kept == SelectSeq(times_with_direction, mine)
    IN [i \in 1..Len(kept) |-> kept[i][1]]

\* lines 328-330: the times in rows of six, joined by two spaces.
RECURSIVE TimeRows(_)
TimeRows(times) ==
    IF times = <<>> THEN <<>>
    ELSE LET n == IF Len(times) < TimesPerRow THEN Len(times) ELSE TimesPerRow
         IN <<Ln("    ", Join(<<" ", " ">>, SubSeq(times, 1, n)), "")>>
            \o TimeRows(SubSeq(times, n + 1, Len(times)))

RECURSIVE DirectionBlocks(_, _)
DirectionBlocks(times_with_direction, directions) ==
    IF directions = <<>> THEN <<>>
    ELSE LET times == ByDirection(times_with_direction, Head(directions))
         IN << Ln("  Direction: ", Head(directions), ""),
               Ln("  (", Str(Len(times)), " departures)"),
               Ln("", <<>>, "") >>
            \o TimeRows(times)
            \o << Ln("", <<>>, "") >>
            \o DirectionBlocks(times_with_direction, Tail(directions))

RECURSIVE StopBlocks(_, _, _)
StopBlocks(stop_ids, stop_times, stops) ==
    IF stop_ids = <<>> THEN <<>>
    ELSE LET stop_id == Head(stop_ids)
             twd == stop_times[stop_id]
         IN << Ln("Stop: ", StopName(stop_id, stops, stop_id) \o <<" ", "(">> \o stop_id, ")"),
               Ln("Departures: ", Str(Len(twd)), " scheduled"),
               Ln("", <<>>, "") >>
            \o DirectionBlocks(twd, SortedStrings({twd[i][2] : i \in DOMAIN twd}))
            \o StopBlocks(Tail(stop_ids), stop_times, stops)

MatchingBlock(stop_name, stops, matching_stops) ==
    IF stop_name # <<>> /\ matching_stops # <<>>
    THEN << Ln("=== Stops matching '", stop_name, "' ==="),
            Ln("Found ", Str(Len(matching_stops)), " matching stops:") >>
         \o [i \in 1..Len(matching_stops) |->
               Ln("  ", matching_stops[i] \o <<":", " ">>
                         \o StopName(matching_stops[i], stops, <<"U", "n", "k", "n", "o", "w", "n">>), "")]
         \o << Ln("", <<>>, "") >>
    ELSE <<>>

\* format_output; `now` is the utcnow() of line 279, rendered to the second.
format_output(line, stop_name, schedule_type, route_id, trips, stop_times, stops, matching_stops, now) ==
    << Ln("=== ATM Tram Schedule (GTFS) ===", <<>>, ""),
       Ln("Line: ", line, ""),
       Ln("Stop: ", IF stop_name # <<>> THEN stop_name
                    ELSE <<"a", "l", "l", " ", "s", "t", "o", "p", "s">>, ""),
       Ln("Schedule Type: ", schedule_type, ""),
       Ln("Queried At: ", Str(now), ""),
       Ln("Data Source: GTFS Static Feed", <<>>, ""),
       Ln("", <<>>, ""),
       Ln("Route ID: ", route_id, ""),
       Ln("", <<>>, ""),
       Ln("=== Trips for ", schedule_type, " ==="),
       Ln("Found ", Str(Cardinality(DOMAIN trips)), " trips"),
       Ln("", <<>>, "") >>
    \o MatchingBlock(stop_name, stops, matching_stops)
    \o << Ln("=== Departure Times ===", <<>>, ""), Ln("", <<>>, "") >>
    \o (IF DOMAIN stop_times = {}
        THEN << Ln("No departure times found.", <<>>, "") >>
        ELSE StopBlocks(SortedStrings(DOMAIN stop_times), stop_times, stops))
    \o << Ln("=== Note ===", <<>>, ""),
          Ln("This data is from GTFS static feed (scheduled times, not real-time).", <<>>, ""),
          Ln("Times shown are in HH:MM:SS format.", <<>>, ""),
          Ln("For real-time data, the ATM API is currently unavailable due to access restrictions.", <<>>, "") >>

\* The part of main between the dataset refresh and the report (lines
\* 385-416): load the tables, resolve the route, select the trips, resolve the
\* stop filter, aggregate.  The set of outcomes it may produce.
RunQuery(line, stop_name, schedule_type, routes, stops, trips_txt, stop_times_txt) ==
    LET route == find_route_id(line, routes)
        trips == find_trips(route[1], SERVICE_PATTERNS[schedule_type], TripLimit, trips_txt)
        matching_stops == IF stop_name # <<>>
                          THEN Some(find_stops_by_name(stop_name, stops))
                          ELSE None
        failed(why) == [status |-> why, route_id |-> <<>>, trips |-> <<>>,
                        matching_stops |-> None, stop_times |-> <<>>]
    IN IF route = None THEN {failed("route_not_found")}
       ELSE IF DOMAIN trips = {} THEN {failed("no_trips")}
       ELSE {[status |-> "ok", route_id |-> route[1], trips |-> trips,
              matching_stops |-> matching_stops, stop_times |-> st] :
                st \in get_stop_times(trips, matching_stops, stop_times_txt)}

\* `matching_stops or []` (line 434)
OrEmpty(matching_stops) == IF matching_stops = None THEN <<>> ELSE matching_stops[1]

\* ------------------------------------------------------------------- bounds

MaxRuns == 2
MaxTicks == 2
MaxRows == 2

\* --------------------------------------------------------------------- data

L9 == <<"9">>
L9a == <<"9", ":", "a">>
L7 == <<"7">>
RT9 == <<"T", "9">>
RR2 == <<"R", "2">>
S1 == <<"s", "1">>
S2 == <<"s", "2">>
HA == <<"A">>
HB == <<"B">>
LV == <<"a", " ", "L", "V", " ", "1">>
SAB == <<"a", " ", "S", "A", "B", " ", "1">>
Tm(h1, h2, m1, m2) == <<h1, h2, ":", m1, m2, ":", "0", "0">>
Tm9 == <<"9", ":", "0", "5", ":", "0", "0">>
Tm10 == Tm("1", "0", "3", "0")

\* routes.txt: tram 9 (id "T9"), a tram whose short name is "9:a" (found by
\* the short-name scan), and bus 7 (not a tram).
routes_txt ==
    << [route_id |-> RT9, short_name |-> L9, type |-> <<"0">>],
       [route_id |-> RR2, short_name |-> L9a, type |-> <<"0">>],
       [route_id |-> <<"B", "7">>, short_name |-> L7, type |-> <<"3">>] >>

stops_txt ==
    << [stop_id |-> S1, name |-> <<"A", "b">>],
       [stop_id |-> S2, name |-> <<"b", " ", "c">>] >>

TripRow(r, sv, t, h) ==
    [route_id |-> r, service_id |-> sv, trip_id |-> t, trip_headsign |-> h]
TimeRow(t, s, d) == [trip_id |-> t, stop_id |-> s, departure_time |-> d]

\* trips.txt and stop_times.txt of the bundle the source serves.  No trip of
\* line 9 runs on a " FEST " service.
trips_txt ==
    << TripRow(RT9, LV, <<"t", "1">>, HA),
       TripRow(RT9, SAB, <<"t", "2">>, HB),
       TripRow(RR2, LV, <<"t", "3">>, HA) >>

stop_times_txt ==
    << TimeRow(<<"t", "1">>, S1, Tm10),
       TimeRow(<<"t", "1">>, S2, Tm9),
       TimeRow(<<"t", "2">>, S1, Tm10),
       TimeRow(<<"t", "3">>, S2, Tm10) >>

Arg(l, s, t) == [line |-> l, stop_name |-> s, schedule_type |-> t]

\* The command lines the model issues: line 9 (all stops) on the three day
\* types, two queries whose stop filter matches no stop / some stops, a line
\* that is no tram, and an unknown schedule type.
Args ==
    { Arg(L9, <<>>, weekday), Arg(L9, <<>>, saturday), Arg(L9, <<>>, sunday),
      Arg(L9, <<"a", ":", "b">>, weekday), Arg(L9a, <<"b">>, weekday),
      Arg(L7, <<>>, weekday), Arg(L9, <<>>, tuesday) }

Tables == {"routes.txt", "stops.txt", "trips.txt", "stop_times.txt"}

\* The clock advances by a second, by just under the query TTL, or by the
\* dataset TTL.
TickSteps == {1, SCHEDULE_CACHE_TTL - 1, GTFS_CACHE_TTL}

\* -------------------------------------------------------------------- state

VARIABLES
    clock,      \* wall clock, in seconds
    ticks,      \* clock advances so far
    runs,       \* invocations so far that missed the query cache
    storeUp,    \* the ambrogioctl state store answers
    store,      \* the state store: key -> value
    zip,        \* GTFS_ZIP: None, or Some([at, ok]): when fetched, and whether it is a zip
    tables,     \* GTFS_DIR/<table>: None, or Some(fetch time of the archive it came from)
    reports,    \* the report files: path -> content
    pc,         \* the invocation: "idle", "download", "query", "done"
    argv,       \* its arguments
    out,        \* its standard output and exit code
    eff,        \* what it has done so far
    lastMiss,   \* history: args -> an invocation that succeeded with CACHE: miss
    qin,        \* query check: the tables and the stop filter given
    qpc,        \* query check: "start", "queried", "formatted"
    qres,       \* query check: the query result
    qout        \* query check: the formatted report

vars ==
    << clock, ticks, runs, storeUp, store, zip, tables, reports, pc, argv, out,
       eff, lastMiss, qin, qpc, qres, qout >>

mainVars ==
    << clock, ticks, runs, storeUp, store, zip, tables, reports, pc, argv, out,
       eff, lastMiss >>

queryVars == << qin, qpc, qres, qout >>

NoArgs == Arg(<<>>, <<>>, <<>>)
NoOut == [cache |-> "none", text |-> None, code |-> -1]
NoEffects ==
    [ missed |-> FALSE, downAll |-> TRUE, startAt |-> 0, dm |-> "none", seenFiles |-> FALSE,
      seenTs |-> None, dmAt |-> 0, fetch |-> "none", extract |-> "none",
      sets |-> <<>>, scanned |-> FALSE, wrote |-> None ]
NoQuery == [status |-> "none", route_id |-> <<>>, trips |-> <<>>,
            matching_stops |-> None, stop_times |-> <<>>]
NoInput == [trips_txt |-> <<>>, stop_times_txt |-> <<>>, stop_name |-> <<>>]

MainInit ==
    /\ clock = 0 /\ ticks = 0 /\ runs = 0
    /\ storeUp \in BOOLEAN
    /\ store = <<>>
    /\ zip = None
    /\ tables = [t \in Tables |-> None]
    /\ reports = <<>>
    /\ pc = "idle" /\ argv = NoArgs /\ out = NoOut /\ eff = NoEffects
    /\ lastMiss = <<>>

QueryIdle == qin = NoInput /\ qpc = "start" /\ qres = NoQuery /\ qout = <<>>

\* --------------------------------------------------------------- CacheStore

\* hashlib.sha256(...).hexdigest(): the digest is taken to be injective on its
\* input, so it is represented by the input it digests.
Sha256(text) == text

\* cache_input (line 364): the three arguments joined by ":".
cache_input(line, stop_name, schedule_type) ==
    line \o <<":">> \o stop_name \o <<":">> \o schedule_type

\* cache_key (lines 365-366)
cache_key(a) ==
    [ns |-> "atm-tram-schedule:cache:",
     h |-> Sha256(cache_input(a.line, a.stop_name, a.schedule_type))]

gtfs_cache_key == [ns |-> "atm-tram-schedule:gtfs:timestamp", h |-> <<>>]

\* get_cache_state: the value stored under key, None when there is none or
\* the store does not answer.
get_cache_state(key) ==
    IF storeUp /\ key \in DOMAIN store THEN Some(store[key]) ELSE None

\* mutant: the value never reaches the store.
set_cache_state_lost(key, value) == [store |-> store, raised |-> FALSE]

\* mutant: a failure of the store process is not swallowed.
set_cache_state_raising(key, value) ==
    [store |-> IF storeUp THEN (key :> value) @@ store ELSE store,
     raised |-> ~storeUp]

\* set_cache_state: the store afterwards, and whether the call raised (it
\* never does: every exception is swallowed).
set_cache_state(key, value) ==
    [store |-> IF storeUp THEN (key :> value) @@ store ELSE store,
     raised |-> FALSE]

\* mutant: the age of the entry is compared in minutes with a ttl in seconds.
check_cache_age_in_minutes(key, ttl) ==
    LET cache_entry == get_cache_state(key)
    IN IF cache_entry = None THEN None
       ELSE IF /\ (clock - cache_entry[1].timestamp) * 60 < ttl
               /\ cache_entry[1].text_path \in DOMAIN reports
            THEN cache_entry
            ELSE None

\* check_cache: the entry under key if it is younger than ttl and its report
\* file exists, else None.  Timestamps are written and parsed to the second.
check_cache(key, ttl) ==
    LET cache_entry == get_cache_state(key)
    IN IF cache_entry = None THEN None
       ELSE IF /\ clock - cache_entry[1].timestamp < ttl
               /\ cache_entry[1].text_path \in DOMAIN reports
            THEN cache_entry
            ELSE None

\* ------------------------------------------------------------ report paths

\* slug (lines 425-428)
Slug(line, stop_name) ==
    LET low == Lower(stop_name)
        cut == SubSeq(low, 1, IF Len(low) < SlugMaxLen THEN Len(low) ELSE SlugMaxLen)
        nospace == SelectSeq(cut, LAMBDA c : c # " ")
    IN <<"l", "i", "n", "e">> \o line \o <<"-">>
       \o (IF stop_name # <<>> THEN nospace ELSE <<"a", "l", "l">>)

\* text_path (lines 419-430): the directory and the file name carry the local
\* time to the second, the file name also the slug.
TextPath(now, line, stop_name) == [ts |-> now, slug |-> Slug(line, stop_name)]

\* ----------------------------------------------------------- DatasetManager

all_files_exist == \A t \in Tables : tables[t] # None

\* mutant: the query TTL is used for the dataset.
dataset_cache_valid_query_ttl(files, gtfs_timestamp, now) ==
    files /\ gtfs_timestamp # None /\ now - gtfs_timestamp[1] < SCHEDULE_CACHE_TTL

\* lines 107-115: no download is needed.
dataset_cache_valid(files, gtfs_timestamp, now) ==
    files /\ gtfs_timestamp # None /\ now - gtfs_timestamp[1] < GTFS_CACHE_TTL

\* A file at GTFS_ZIP that is no zip archive (its age plays no part).
NotAZip == [at |-> 0, ok |-> FALSE]

\* The tables zipfile has written when extractall fails part-way.
PartlyExtracted == {"routes.txt", "stops.txt"}

\* lines 122-129, when curl exits 0: the archive on disk afterwards.  An
\* archive already on disk is kept, whatever its age; curl is run without
\* --fail, so what it saves need not be a zip.
ZipAfterFetch ==
    IF zip = None THEN {[at |-> clock, ok |-> TRUE], NotAZip} ELSE {zip[1]}

Seen ==
    [eff EXCEPT !.downAll = eff.downAll /\ ~storeUp,
                !.seenFiles = all_files_exist,
                !.seenTs = get_cache_state(gtfs_cache_key),
                !.dmAt = clock]

Exited(code) == [cache |-> "none", text |-> None, code |-> code]

\* download_gtfs returns True at line 113.
DatasetFresh ==
    /\ pc = "download"
    /\ dataset_cache_valid(all_files_exist, get_cache_state(gtfs_cache_key), clock)
    /\ eff' = [Seen EXCEPT !.dm = "fresh"]
    /\ pc' = "query"
    /\ UNCHANGED << clock, ticks, runs, storeUp, store, zip, tables, reports,
                    argv, out, lastMiss, qin, qpc, qres, qout >>

\* curl fails (line 127): download_gtfs returns False, main exits 1.  curl
\* may leave a partial file behind.
FetchFailed ==
    /\ pc = "download"
    /\ ~dataset_cache_valid(all_files_exist, get_cache_state(gtfs_cache_key), clock)
    /\ zip = None
    /\ zip' \in {None, Some(NotAZip)}
    /\ eff' = [Seen EXCEPT !.dm = "failed", !.fetch = "fail"]
    /\ out' = Exited(1)
    /\ pc' = "done"
    /\ UNCHANGED << clock, ticks, runs, storeUp, store, tables, reports, argv,
                    lastMiss, qin, qpc, qres, qout >>

\* extractall raises (line 137): download_gtfs returns False, main exits 1.
\* What is not a zip extracts nothing; a zip may fail part-way and leave the
\* tables it had written.
ExtractFailed ==
    /\ pc = "download"
    /\ ~dataset_cache_valid(all_files_exist, get_cache_state(gtfs_cache_key), clock)
    /\ \E z \in ZipAfterFetch, written \in {{}, PartlyExtracted} :
          /\ ~z.ok => written = {}
          /\ zip' = Some(z)
          /\ tables' = [t \in Tables |-> IF t \in written THEN Some(z.at) ELSE tables[t]]
          /\ eff' = [Seen EXCEPT !.dm = "failed",
                                 !.fetch = IF zip = None THEN "ok" ELSE "none",
                                 !.extract = "fail"]
    /\ out' = Exited(1)
    /\ pc' = "done"
    /\ UNCHANGED << clock, ticks, runs, storeUp, store, reports, argv, lastMiss, qin, qpc, qres, qout >>

\* lines 117-145: fetch if no archive is on disk, extract, record the time.
DatasetRefreshed ==
    /\ pc = "download"
    /\ ~dataset_cache_valid(all_files_exist, get_cache_state(gtfs_cache_key), clock)
    /\ \E z \in ZipAfterFetch :
          /\ z.ok
          /\ zip' = Some(z)
          /\ tables' = [t \in Tables |-> Some(z.at)]
    /\ LET r == set_cache_state(gtfs_cache_key, clock)
           e == [Seen EXCEPT !.fetch = IF zip = None THEN "ok" ELSE "none",
                             !.extract = "ok",
                             !.sets = Append(eff.sets, gtfs_cache_key)]
       IN /\ store' = r.store
          /\ IF r.raised
             THEN eff' = [e EXCEPT !.dm = "failed"] /\ out' = Exited(1) /\ pc' = "done"
             ELSE eff' = [e EXCEPT !.dm = "refreshed"] /\ out' = out /\ pc' = "query"
    /\ UNCHANGED << clock, ticks, runs, storeUp, reports, argv, lastMiss, qin, qpc, qres, qout >>

\* --------------------------------------------------------------------- main

\* An invocation starts.
Started(a) ==
    /\ pc = "idle"
    /\ argv' = a

\* lines 358-361: an unknown schedule type is refused before anything else.
InvalidScheduleType(a) ==
    /\ Started(a)
    /\ a.schedule_type \notin DOMAIN SERVICE_PATTERNS
    /\ out' = Exited(1)
    /\ eff' = [NoEffects EXCEPT !.startAt = clock]
    /\ pc' = "done"
    /\ UNCHANGED << clock, ticks, runs, storeUp, store, zip, tables, reports, lastMiss, qin, qpc, qres, qout >>

\* mutant: the hit is printed and the run goes on (no sys.exit at line 377).
CacheHitFallsThrough(a) ==
    /\ Started(a)
    /\ a.schedule_type \in DOMAIN SERVICE_PATTERNS
    /\ check_cache(cache_key(a), SCHEDULE_CACHE_TTL) # None
    /\ out' = [cache |-> "hit",
               text |-> Some(check_cache(cache_key(a), SCHEDULE_CACHE_TTL)[1].text_path),
               code |-> 0]
    /\ eff' = [NoEffects EXCEPT !.startAt = clock, !.downAll = ~storeUp]
    /\ pc' = "download"
    /\ UNCHANGED << clock, ticks, runs, storeUp, store, zip, tables, reports, lastMiss, qin, qpc, qres, qout >>

\* lines 363-377: the query cache answers; print the cached path, exit 0.
CacheHit(a) ==
    /\ Started(a)
    /\ a.schedule_type \in DOMAIN SERVICE_PATTERNS
    /\ check_cache(cache_key(a), SCHEDULE_CACHE_TTL) # None
    /\ out' = [cache |-> "hit",
               text |-> Some(check_cache(cache_key(a), SCHEDULE_CACHE_TTL)[1].text_path),
               code |-> 0]
    /\ eff' = [NoEffects EXCEPT !.startAt = clock, !.downAll = ~storeUp]
    /\ pc' = "done"
    /\ UNCHANGED << clock, ticks, runs, storeUp, store, zip, tables, reports, lastMiss, qin, qpc, qres, qout >>

\* lines 363-370: the query cache does not answer; go on to download_gtfs.
CacheMiss(a) ==
    /\ Started(a)
    /\ a.schedule_type \in DOMAIN SERVICE_PATTERNS
    /\ check_cache(cache_key(a), SCHEDULE_CACHE_TTL) = None
    /\ runs < MaxRuns
    /\ runs' = runs + 1
    /\ out' = NoOut
    /\ eff' = [NoEffects EXCEPT !.startAt = clock, !.missed = TRUE, !.downAll = ~storeUp]
    /\ lastMiss' = IF storeUp THEN lastMiss
                   ELSE [x \in DOMAIN lastMiss |-> [lastMiss[x] EXCEPT !.clean = FALSE]]
    /\ pc' = "download"
    /\ UNCHANGED << clock, ticks, storeUp, store, zip, tables, reports, qin, qpc, qres, qout >>

\* History: a successful miss of a's triple is on record, it started less
\* than the query TTL ago and its report is on disk.
Live(a) ==
    /\ a \in DOMAIN lastMiss
    /\ clock - lastMiss[a].at < SCHEDULE_CACHE_TTL
    /\ lastMiss[a].path \in DOMAIN reports

Queried ==
    RunQuery(argv.line, argv.stop_name, argv.schedule_type,
             routes_txt, stops_txt, trips_txt, stop_times_txt)

\* lines 390-397: no route for the line; exit 1.
RouteNotFound ==
    /\ pc = "query"
    /\ \E q \in Queried : q.status = "route_not_found"
    /\ eff' = [eff EXCEPT !.scanned = TRUE]
    /\ out' = Exited(1)
    /\ pc' = "done"
    /\ UNCHANGED << clock, ticks, runs, storeUp, store, zip, tables, reports,
                    argv, lastMiss, qin, qpc, qres, qout >>

\* lines 399-405: no trip of the route on the day type; exit 1.
NoTripsFound ==
    /\ pc = "query"
    /\ \E q \in Queried : q.status = "no_trips"
    /\ eff' = [eff EXCEPT !.scanned = TRUE]
    /\ out' = Exited(1)
    /\ pc' = "done"
    /\ UNCHANGED << clock, ticks, runs, storeUp, store, zip, tables, reports,
                    argv, lastMiss, qin, qpc, qres, qout >>

\* lines 407-456: aggregate, write the report, record the cache entry, print
\* the result with CACHE: miss.
QuerySucceeded ==
    /\ pc = "query"
    /\ \E q \in Queried :
          /\ q.status = "ok"
          /\ LET text_path == TextPath(clock, argv.line, argv.stop_name)
                 output == format_output(argv.line, argv.stop_name, argv.schedule_type,
                                         q.route_id, q.trips, q.stop_times, stops_txt,
                                         OrEmpty(q.matching_stops), clock)
                 cache_value == [timestamp |-> clock, line |-> argv.line,
                                 stop |-> argv.stop_name,
                                 schedule_type |-> argv.schedule_type,
                                 text_path |-> text_path]
                 r == set_cache_state(cache_key(argv), cache_value)
             IN /\ reports' = (text_path :> output) @@ reports
                /\ store' = r.store
                /\ eff' = [eff EXCEPT !.downAll = eff.downAll /\ ~storeUp,
                                      !.scanned = TRUE, !.wrote = Some(text_path),
                                      !.sets = Append(eff.sets, cache_key(argv))]
                /\ out' = IF r.raised THEN Exited(1)
                          ELSE [cache |-> "miss", text |-> Some(text_path), code |-> 0]
                /\ lastMiss' = IF storeUp /\ ~r.raised /\ ~Live(argv)
                               THEN (argv :> [at |-> eff.startAt, path |-> text_path,
                                              clean |-> TRUE]) @@ lastMiss
                               ELSE lastMiss
    /\ pc' = "done"
    /\ UNCHANGED << clock, ticks, runs, storeUp, zip, tables, argv, qin, qpc, qres, qout >>

\* The process is gone.
Exit ==
    /\ pc = "done"
    /\ pc' = "idle" /\ argv' = NoArgs /\ out' = NoOut /\ eff' = NoEffects
    /\ UNCHANGED << clock, ticks, runs, storeUp, store, zip, tables, reports,
                    lastMiss, qin, qpc, qres, qout >>

\* -------------------------------------------------------------- environment

Tick(d) ==
    /\ pc = "idle"
    /\ ticks < MaxTicks
    /\ ticks' = ticks + 1
    /\ clock' = clock + d
    /\ UNCHANGED << runs, storeUp, store, zip, tables, reports, pc, argv, out,
                    eff, lastMiss, qin, qpc, qres, qout >>

\* The state store stops, or starts, answering.
StoreToggles ==
    /\ pc # "done"
    /\ storeUp' = ~storeUp
    /\ UNCHANGED << clock, ticks, runs, store, zip, tables, reports, pc, argv,
                    out, eff, lastMiss, qin, qpc, qres, qout >>

\* Files are removed from outside (between invocations).
RemoveReport(p) ==
    /\ pc = "idle"
    /\ p \in DOMAIN reports
    /\ reports' = [x \in (DOMAIN reports) \ {p} |-> reports[x]]
    /\ UNCHANGED << clock, ticks, runs, storeUp, store, zip, tables, pc, argv,
                    out, eff, lastMiss, qin, qpc, qres, qout >>

\* GTFS_DIR is removed, the archive in it included.
RemoveDataset ==
    /\ pc = "idle"
    /\ \E t \in Tables : tables[t] # None
    /\ tables' = [t \in Tables |-> None]
    /\ zip' = None
    /\ UNCHANGED << clock, ticks, runs, storeUp, store, reports, pc, argv,
                    out, eff, lastMiss, qin, qpc, qres, qout >>

RemoveZip ==
    /\ pc = "idle"
    /\ zip # None
    /\ zip' = None
    /\ UNCHANGED << clock, ticks, runs, storeUp, store, tables, reports, pc,
                    argv, out, eff, lastMiss, qin, qpc, qres, qout >>

Init == MainInit /\ QueryIdle

Next ==
    \/ \E a \in Args : InvalidScheduleType(a)
    \/ \E a \in Args : CacheHit(a)
    \/ \E a \in Args : CacheMiss(a)
    \/ DatasetFresh
    \/ FetchFailed
    \/ ExtractFailed
    \/ DatasetRefreshed
    \/ RouteNotFound
    \/ NoTripsFound
    \/ QuerySucceeded
    \/ Exit
    \/ \E d \in TickSteps : Tick(d)
    \/ StoreToggles
    \/ \E p \in DOMAIN reports : RemoveReport(p)
    \/ RemoveDataset
    \/ RemoveZip

Spec == Init /\ [][Next]_vars

\* ------------------------------------------------- the query pipeline alone

T0 == <<"t", "0">>
T1 == <<"t", "1">>
T2 == <<"t", "2">>
Tm06 == Tm("0", "6", "0", "0")

\* Six departures of trip t0 at stop s1, so that a seventh time at that stop
\* in the same direction starts a second row of the report.
BaseRows ==
    << TimeRow(T0, S1, Tm06), TimeRow(T0, S1, Tm("0", "6", "1", "0")),
       TimeRow(T0, S1, Tm("0", "6", "2", "0")), TimeRow(T0, S1, Tm("0", "6", "3", "0")),
       TimeRow(T0, S1, Tm("0", "6", "4", "0")), TimeRow(T0, S1, Tm("0", "6", "5", "0")) >>

\* The rows drawn for stop_times.txt: two trips, two stops, three times (one
\* of them narrower than the others, one equal to a time of t0).
DrawnRows == {TimeRow(t, st, d) : t \in {T1, T2}, st \in {S1, S2}, d \in {Tm9, Tm10, Tm06}}

RECURSIVE SeqsUpTo(_, _)
SeqsUpTo(S, n) ==
    IF n = 0 THEN {<<>>}
    ELSE LET shorter == SeqsUpTo(S, n - 1)
         IN shorter \cup {Append(q, x) : q \in shorter, x \in S}

\* trips.txt drawn: t0 towards A on weekdays, t1 on weekdays towards A or B,
\* t2 towards B on weekdays or Saturdays.
DrawnTrips ==
    {<< TripRow(RT9, LV, T0, HA), TripRow(RT9, LV, T1, h), TripRow(RT9, sv, T2, HB) >> :
        h \in {HA, HB}, sv \in {LV, SAB}}

\* Stop filters: none, one matching both stops, one matching s1 alone, one
\* matching no stop.
DrawnFilters == {<<>>, <<"b">>, <<"A">>, <<"a", ":", "b">>}

InitQ ==
    /\ MainInit
    /\ qin \in [trips_txt : DrawnTrips,
                stop_times_txt : {BaseRows \o q : q \in SeqsUpTo(DrawnRows, MaxRows)},
                stop_name : DrawnFilters]
    /\ qpc = "start" /\ qres = NoQuery /\ qout = <<>>

\* main, lines 385-416, for line 9 on a weekday.
QueryRuns ==
    /\ qpc = "start"
    /\ qres' \in RunQuery(L9, qin.stop_name, weekday, routes_txt, stops_txt,
                          qin.trips_txt, qin.stop_times_txt)
    /\ qpc' = "queried"
    /\ UNCHANGED << qin, qout >>
    /\ UNCHANGED mainVars

\* main, lines 432-434.
ReportFormatted ==
    /\ qpc = "queried"
    /\ qres.status = "ok"
    /\ qout' = format_output(L9, qin.stop_name, weekday, qres.route_id, qres.trips,
                             qres.stop_times, stops_txt, OrEmpty(qres.matching_stops), 0)
    /\ qpc' = "formatted"
    /\ UNCHANGED << qin, qres >>
    /\ UNCHANGED mainVars

NextQ == QueryRuns \/ ReportFormatted

SpecQ == InitQ /\ [][NextQ]_vars

\* ------------------------------------------------------------------- claims

\* The words of a line of text (split on spaces).
RECURSIVE Tokens(_)
Tokens(text) ==
    IF text = <<>> THEN <<>>
    ELSE IF Head(text) = " " THEN Tokens(Tail(text))
    ELSE LET stops == {i \in 1..Len(text) : text[i] = " "}
             n == IF stops = {} THEN Len(text) + 1
                  ELSE CHOOSE i \in stops : \A j \in stops : i <= j
         IN <<SubSeq(text, 1, n - 1)>> \o Tokens(SubSeq(text, n, Len(text)))

\* The times printed in the rows of a report from line j on.
RECURSIVE RowTimes(_, _)
RowTimes(report, j) ==
    IF j > Len(report) \/ report[j].pre # "    " THEN <<>>
    ELSE Tokens(report[j].text) \o RowTimes(report, j + 1)

StrictlyIncreasing(times) ==
    \A i \in 1..(Len(times) - 1) : LexLess(times[i], times[i + 1])

\* C9: in the query result and in the formatted report, the departure times
\* of every stop and direction are in strictly increasing string order (no
\* (time, headsign) pair of a stop appears twice), and the result holds
\* exactly the pairs of the rows kept.
C9_TimesSortedAndUnique ==
    /\ qpc \in {"queried", "formatted"} =>
          \A s \in DOMAIN qres.stop_times :
             LET l == qres.stop_times[s]
             IN /\ \A i, j \in 1..Len(l) :
                      (i < j /\ l[i][2] = l[j][2]) => LexLess(l[i][1], l[j][1])
                /\ Range(l) = Range(TimesList(s, qres.trips, qres.matching_stops,
                                              qin.stop_times_txt))
    /\ qpc = "formatted" =>
          \A i \in 1..Len(qout) :
             qout[i].pre = "  Direction: " => StrictlyIncreasing(RowTimes(qout, i + 3))

\* C9 witness: a report whose stop s1 lists more than six times towards A, on
\* rows that gave the same (time, headsign) pair of a stop twice.
C9_Witness ==
    /\ qpc = "formatted"
    /\ S1 \in DOMAIN qres.stop_times
    /\ Len(ByDirection(qres.stop_times[S1], HA)) > TimesPerRow
    /\ \E s \in DOMAIN qres.stop_times :
          Len(TimesList(s, qres.trips, qres.matching_stops, qin.stop_times_txt))
             > Len(qres.stop_times[s])

\* ---- claims about the invocations (specification Spec)

ValidType(a) == a.schedule_type \in DOMAIN SERVICE_PATTERNS

\* The outcomes of the running invocation's query with its stop filter dropped.
Unfiltered ==
    RunQuery(argv.line, <<>>, argv.schedule_type,
             routes_txt, stops_txt, trips_txt, stop_times_txt)

\* C1: a query for a valid line whose non-empty stop filter matches no stop
\* exits 0 with the report of the departure times an unfiltered query gives
\* for the same trips.
C1_ZeroMatchRunsUnfiltered ==
    ( /\ pc = "done" /\ eff.scanned
      /\ argv.stop_name # <<>>
      /\ find_stops_by_name(argv.stop_name, stops_txt) = <<>>
      /\ \E q \in Unfiltered : q.status = "ok" )
    => /\ out.code = 0
       /\ out.text # None
       /\ reports[out.text[1]] \in
             {format_output(argv.line, argv.stop_name, argv.schedule_type, q.route_id,
                            q.trips, q.stop_times, stops_txt, <<>>, clock) :
                q \in Unfiltered}

\* C2: two queries that have run share a query-cache key only if their
\* (line, stop, schedule type) triples are identical.
C2_KeyIdentifiesTriple ==
    \A a, b \in DOMAIN lastMiss : cache_key(a) = cache_key(b) => a = b

\* C3: whenever download_gtfs returns success, the four tables are on disk and
\* come from an archive fetched less than the dataset TTL earlier.
C3_TablesYoungerThanTTL ==
    eff.dm \in {"fresh", "refreshed"} =>
        \A t \in Tables : tables[t] # None /\ eff.dmAt - tables[t][1] < GTFS_CACHE_TTL

Count(seq, x) == Cardinality({i \in 1..Len(seq) : seq[i] = x})

\* C4 as claimed: every invocation that misses the query cache writes exactly
\* one CacheStore entry, whatever the rest of the pipeline does.
C4_EveryMissWritesOneEntry ==
    (pc = "done" /\ eff.missed) => Len(eff.sets) = 1

\* C4 as amended: an invocation that misses the query cache issues exactly one
\* CacheStore set for its query key when it exits 0 and none when it exits
\* 1; a dataset refresh issues one more, for the dataset timestamp; nothing
\* else is set.  When the store answers, the entry recorded is this query's:
\* its time, its triple, the path of the report written.
C4_SuccessfulMissWritesOneQueryEntry ==
    (pc = "done" /\ eff.missed) =>
        /\ Count(eff.sets, cache_key(argv)) = (IF out.code = 0 THEN 1 ELSE 0)
        /\ Count(eff.sets, gtfs_cache_key) = (IF eff.dm = "refreshed" THEN 1 ELSE 0)
        /\ Len(eff.sets) = Count(eff.sets, cache_key(argv)) + Count(eff.sets, gtfs_cache_key)
        /\ (out.code = 0 /\ storeUp) =>
              /\ cache_key(argv) \in DOMAIN store
              /\ store[cache_key(argv)] =
                    [timestamp |-> clock, line |-> argv.line, stop |-> argv.stop_name,
                     schedule_type |-> argv.schedule_type, text_path |-> out.text[1]]
              /\ eff.wrote = out.text

\* C4 witness: a miss that refreshed the dataset and succeeded (two sets, one
\* of them the query entry), with the store answering.
C4_Witness ==
    /\ pc = "done" /\ eff.missed /\ out.code = 0 /\ storeUp
    /\ eff.dm = "refreshed" /\ Len(eff.sets) = 2

\* C5: an invocation that reports CACHE: hit is over at once with exit code 0
\* and the cached path; it has not called download_gtfs, read no table,
\* written no report and set nothing in the CacheStore, and the step that
\* reports the hit leaves the store, the archive, the tables and the reports
\* as they were.
C5_HitDoesNothingElse ==
    [][ out'.cache = "hit" =>
          /\ pc' = "done" /\ out'.code = 0
          /\ out'.text # None /\ out'.text[1] \in DOMAIN reports
          /\ eff'.dm = "none" /\ eff'.fetch = "none" /\ eff'.extract = "none"
          /\ ~eff'.scanned /\ eff'.wrote = None /\ eff'.sets = <<>>
          /\ UNCHANGED << store, zip, tables, reports >> ]_vars

\* C5 witness: a hit has been reported.
C5_Witness == pc = "done" /\ out.cache = "hit" /\ out.code = 0

C7_StoreDownDegradesToMiss ==
    (pc = "done" /\ eff.downAll /\ ValidType(argv)) =>
        /\ eff.missed /\ out.cache # "hit"
        /\ eff.seenTs = None /\ eff.dm \in {"refreshed", "failed"}
        /\ (eff.dm = "refreshed") <=> (eff.fetch # "fail" /\ eff.extract = "ok")
        /\ out.code = (IF eff.dm = "refreshed" /\ (\E q \in Queried : q.status = "ok")
                       THEN 0 ELSE 1)
        /\ out.code = 0 =>
              /\ out.cache = "miss" /\ out.text # None
              /\ reports[out.text[1]] \in
                    {format_output(argv.line, argv.stop_name, argv.schedule_type,
                                   q.route_id, q.trips, q.stop_times, stops_txt,
                                   OrEmpty(q.matching_stops), clock) : q \in Queried}

\* C7 witness: a run without the store that refreshed the dataset and exited 0.
C7_Witness ==
    pc = "done" /\ eff.downAll /\ out.code = 0 /\ eff.dm = "refreshed"

\* The dataset timestamp recorded in the store is younger than the dataset
\* TTL and the four tables are on disk.
RecordedFresh ==
    /\ gtfs_cache_key \in DOMAIN store
    /\ clock - store[gtfs_cache_key] < GTFS_CACHE_TTL
    /\ \A t \in Tables : tables[t] # None

\* C8 as claimed: when the recorded dataset timestamp is younger than the
\* dataset TTL and the four tables are on disk, download_gtfs returns success
\* and fetches, extracts and records nothing; and an archive is fetched only
\* by a download_gtfs that did not find this.
C8_FreshDatasetNoNetwork ==
    [][ /\ (pc = "download" /\ pc' # "download" /\ RecordedFresh) =>
              (pc' = "query" /\ UNCHANGED << zip, tables, store >>)
        /\ (zip = None /\ zip' # None) => (pc = "download" /\ ~RecordedFresh) ]_vars

\* C8 as amended: the same, when the store answers the invocation (it returns
\* the recorded timestamp).
C8_FreshDatasetReadNoNetwork ==
    [][ /\ (pc = "download" /\ pc' # "download" /\ storeUp /\ RecordedFresh) =>
              (pc' = "query" /\ eff'.dm = "fresh" /\ UNCHANGED << zip, tables, store >>)
        /\ (zip = None /\ zip' # None) => (pc = "download" /\ ~(storeUp /\ RecordedFresh)) ]_vars

\* C8 witness: download_gtfs has returned success without refreshing, on a
\* timestamp recorded at an earlier time.
C8_Witness ==
    /\ pc = "query" /\ eff.dm = "fresh"
    /\ eff.seenTs # None /\ eff.seenTs[1] < clock

\* The (line, stop, schedule type) a report's header shows.
ReportTriple(report) == << report[2].text, report[3].text, report[4].text >>
ShownTriple(line, stop_name, schedule_type) ==
    << line,
       IF stop_name # <<>> THEN stop_name
       ELSE <<"a", "l", "l", " ", "s", "t", "o", "p", "s">>,
       schedule_type >>

\* C10: the report file a valid query entry refers to is the report of that
\* entry's own triple, and a cache hit returns the report of the triple asked.
C10_EntryReportIsItsOwn ==
    /\ \A k \in DOMAIN store :
          ( /\ k.ns = "atm-tram-schedule:cache:"
            /\ clock - store[k].timestamp < SCHEDULE_CACHE_TTL
            /\ store[k].text_path \in DOMAIN reports )
          => ReportTriple(reports[store[k].text_path])
                = ShownTriple(store[k].line, store[k].stop, store[k].schedule_type)
    /\ out.cache = "hit" =>
          ReportTriple(reports[out.text[1]])
             = ShownTriple(argv.line, argv.stop_name, argv.schedule_type)

====
